---- MODULE Spec2Model ----
(***************************************************************************)
(* bdenc: in-place, resumable AES-256-CBC encryption / decryption of a     *)
(* device in fixed-size chunks (src/src/main.cpp).                         *)
(*                                                                         *)
(* The model is main() as a state machine.  One invocation of the program  *)
(* is a run: Start .. Exit.  The process can be killed between any two     *)
(* steps (Kill) and be invoked again; only the device and the files of the *)
(* workdir survive.                                                        *)
(*                                                                         *)
(* Abstractions.  A cipher block (16 bytes) is one value of Vals, so the   *)
(* device is a sequence of blocks and a chunk of chunkSize bytes is        *)
(* chunkSize / BlockSize consecutive blocks.  A file is a record           *)
(* [exists, data]; its size is Len(data) times the size of one item of     *)
(* that file (16 for .iv and stage files, 32 for .key, 8 for the offset    *)
(* and sparse files).  AES is a keyed permutation of Vals and the CBC      *)
(* chaining xor is addition modulo NumVals.                                *)
(***************************************************************************)
EXTENDS Integers, Sequences, FiniteSets, TLC

\* ------------------------------------------------------------------ bounds

\* number of distinct values of a cipher block
NumVals == 3
\* largest device, in cipher blocks
MaxBlocks == 3
\* invocations of the program in one behaviour
MaxRuns == 3
\* distinct keys the random source of CreateRandomFile produces
\* entries of an enc_sparse file found in the workdir
MaxLog == 2
NumKeys == 1
\* faults in one behaviour: kills of the process and failing unlinks
MaxFaults == 1

\* ------------------------------------------------------- program constants

blockSize == 16
keySize == 32
\* sizeof(uint64_t): the offset file and one entry of the sparse file
offsetSize == 8

Modes == {"enc", "dec"}
Vals == 0 .. (NumVals - 1)
KeyVals == 1 .. NumKeys
\* -s: 16 and 32 are accepted, 24 is not a multiple of the block size
ChunkSizes == {16, 24, 32}
\* what EVP_CIPHER_CTX_block_size may report
CipherBlockSizes == {16, 8}

\* ------------------------------------------------------------------- files

NoFile == [exists |-> FALSE, data |-> <<>>]
EmptyFile == [exists |-> TRUE, data |-> <<>>]
FileOf(d) == [exists |-> TRUE, data |-> d]
FileSize(f, item) == item * Len(f.data)

\* ------------------------------------------------------------------ cipher

Swap01(x) == IF x = 0 THEN 1 ELSE IF x = 1 THEN 0 ELSE x
\* the block cipher under key k and its inverse
BlockEnc(k, x) == Swap01((x + k) % NumVals)
BlockDec(k, y) == (Swap01(y) + NumVals - k) % NumVals
\* the CBC chaining combination and its inverse
Mix(a, b) == (a + b) % NumVals
Unmix(a, b) == (a + NumVals - b) % NumVals

\* CbcUpdate with the decrypt side chaining on its output block instead of
\* the ciphertext block it read
RECURSIVE CbcUpdateChainsOutput(_, _, _, _)
CbcUpdateChainsOutput(m, k, prev, in) ==
    IF in = <<>> THEN [out |-> <<>>, ctx |-> prev]
    ELSE LET x == Head(in)
             y == IF m = "enc" THEN BlockEnc(k, Mix(x, prev))
                               ELSE Unmix(BlockDec(k, x), prev)
             rest == CbcUpdateChainsOutput(m, k, y, Tail(in))
         IN  [out |-> <<y>> \o rest.out, ctx |-> rest.ctx]

\* EVP_EncryptUpdate / EVP_DecryptUpdate on whole blocks, padding off: the
\* context holds the previous ciphertext block (the IV at first).
RECURSIVE CbcUpdate(_, _, _, _)
CbcUpdate(m, k, prev, in) ==
    IF in = <<>> THEN [out |-> <<>>, ctx |-> prev]
    ELSE LET x == Head(in)
             y == IF m = "enc" THEN BlockEnc(k, Mix(x, prev))
                               ELSE Unmix(BlockDec(k, x), prev)
             nxt == IF m = "enc" THEN y ELSE x
             rest == CbcUpdate(m, k, nxt, Tail(in))
         IN  [out |-> <<y>> \o rest.out, ctx |-> rest.ctx]


\* ------------------------------------------------------------------- state

VARIABLES
    \* the device and the workdir: what survives the process
    dev, ivFile, keyFile, offFile, sparseFile, stage,
    \* fixed for a behaviour: the -s argument and the cipher's block size
    chunkSize, cipherBlockSize,
    \* the process: position in main() and its local variables
    pc, mode, dryRun, offset, ctx, sparseOffset, allZeroes, block, exitCode,
    \* history, for stating the properties: the device at Init, the runs that
    \* have ended, the device when a mode was first invoked, the durable state
    \* when the current run started, the offsets this run fed to the cipher
    \* and wrote on the device, the stage files whose unlink failed, the
    \* cipher applications (input and output chunk) per mode and offset
    origDev, hist, startDev, snap, runFed, runWrote, unlinkErr, applied

disk == <<dev, ivFile, keyFile, offFile, sparseFile, stage>>
env == <<chunkSize, cipherBlockSize>>
locals == <<offset, ctx, sparseOffset, allZeroes, block>>
ghost == <<origDev, startDev, snap, runFed, runWrote, unlinkErr, applied>>
vars == <<disk, env, pc, mode, dryRun, locals, exitCode, hist, ghost>>

\* offsets a stage file can be named after
Offs == {o \in 0 .. (blockSize * MaxBlocks) : o % blockSize = 0}

\* dev.Size()
DevSize == blockSize * Len(dev)
\* the chunk of device d at byte offset o
ChunkAt(d, o) == SubSeq(d, (o \div blockSize) + 1, (o + chunkSize) \div blockSize)
\* dev.Write(o, ...) of a whole chunk
WriteAt(d, o, data) ==
    [i \in 1 .. Len(d) |->
        IF i > o \div blockSize /\ i <= (o \div blockSize) + Len(data)
        THEN data[i - (o \div blockSize)] ELSE d[i]]
\* memcmp(chunk, zeros) == 0
IsZero(c) == \A i \in 1 .. Len(c) : c[i] = 0

Disk == [dev |-> dev, iv |-> ivFile, key |-> keyFile, off |-> offFile,
         sparse |-> sparseFile, stage |-> stage]

Init ==
    /\ dev \in UNION {[1 .. n -> Vals] : n \in 0 .. MaxBlocks}
    /\ ivFile = NoFile /\ keyFile = NoFile
    /\ offFile = [m \in Modes |-> NoFile]
    /\ sparseFile = NoFile
    /\ stage = [m \in Modes |-> [o \in Offs |-> NoFile]]
    /\ chunkSize \in ChunkSizes
    /\ cipherBlockSize \in CipherBlockSizes
    /\ pc = "idle" /\ mode = "enc" /\ dryRun = FALSE
    /\ offset = 0 /\ ctx = 0 /\ sparseOffset = 0 /\ allZeroes = FALSE
    /\ block = <<>> /\ exitCode = 0
    /\ origDev = dev /\ hist = <<>>
    /\ startDev = [m \in Modes |-> dev]
    /\ snap = Disk
    /\ runFed = {} /\ runWrote = {} /\ unlinkErr = {}
    /\ applied = [m \in Modes |-> [o \in Offs |-> <<>>]]

\* ------------------------------------------------------- ends of a run

ResetLocals ==
    /\ offset' = 0 /\ ctx' = 0 /\ sparseOffset' = 0
    /\ allZeroes' = FALSE /\ block' = <<>>

\* return <code> from main
Return(code) ==
    /\ pc' = "exit" /\ exitCode' = code
    /\ hist' = Append(hist, [m |-> mode, dry |-> dryRun,
                             end |-> IF code = 0 THEN "ok" ELSE "err"])
    /\ ResetLocals
    /\ UNCHANGED <<mode, dryRun>>

\* where a kill hit the run
KillPoint ==
    IF pc = "dev_write" THEN "after_stage_fsync"
    ELSE IF pc = "store" /\ ~allZeroes /\ ~dryRun THEN "after_dev_fsync"
    ELSE IF pc = "unlink" \/ (pc = "loop" /\ allZeroes) THEN "after_offset_fsync"
    ELSE IF pc \in {"iv_write", "key_write", "offset_write", "stage_write"}
         THEN "in_create"
    ELSE "other"

Kills == Cardinality({i \in 1 .. Len(hist) : hist[i].end \notin {"ok", "err"}})
Faults == Kills + Cardinality(unlinkErr)

\* SIGINT, SIGKILL, power loss: the process is gone, the disk stays
Kill ==
    /\ pc \notin {"idle", "exit"}
    /\ Faults < MaxFaults
    /\ pc' = "idle"
    /\ hist' = Append(hist, [m |-> mode, dry |-> dryRun, end |-> KillPoint])
    /\ ResetLocals
    /\ UNCHANGED <<disk, env, mode, dryRun, exitCode, ghost>>

\* ------------------------------------------------------------ main()

\* argument parsing: -m enc|dec, -n
Start(m, d) ==
    /\ pc \in {"idle", "exit"}
    /\ Len(hist) < MaxRuns
    /\ pc' = "check"
    /\ mode' = m /\ dryRun' = d
    /\ startDev' = IF \E i \in 1 .. Len(hist) : hist[i].m = m
                   THEN startDev ELSE [startDev EXCEPT ![m] = dev]
    /\ snap' = Disk
    /\ runFed' = {} /\ runWrote' = {}
    /\ UNCHANGED <<disk, env, locals, exitCode, hist, origDev, unlinkErr,
                   applied>>

\* CheckSizes without the check of the chunk size against the block size
CheckSizesNoChunkCheck ==
    /\ pc = "check"
    /\ IF DevSize % chunkSize # 0 THEN Return(1)
       ELSE /\ pc' = "keys"
            /\ UNCHANGED <<mode, dryRun, locals, exitCode, hist>>
    /\ UNCHANGED <<disk, env, ghost>>

\* chunk size and device size checks
CheckSizes ==
    /\ pc = "check"
    /\ IF chunkSize % blockSize # 0 THEN Return(1)
       ELSE IF DevSize % chunkSize # 0 THEN Return(1)
       ELSE /\ pc' = "keys"
            /\ UNCHANGED <<mode, dryRun, locals, exitCode, hist>>
    /\ UNCHANGED <<disk, env, ghost>>

\* EnsureKeys that creates missing key material in decrypt mode too
EnsureKeysAnyMode ==
    /\ pc = "keys"
    /\ IF ivFile.exists /\ keyFile.exists
       THEN /\ pc' = "cipher"
            /\ UNCHANGED ivFile
       ELSE /\ ivFile' = EmptyFile
            /\ pc' = "iv_write"
    /\ UNCHANGED <<dev, keyFile, offFile, sparseFile, stage, env, mode,
                   dryRun, locals, exitCode, hist, ghost>>

\* key / iv present?  decrypt refuses, encrypt starts creating .iv.  When
\* only one of the two is absent, encrypt creates both anew: CreateFile on
\* the file that is there is taken to truncate it.
EnsureKeys ==
    /\ pc = "keys"
    /\ IF ivFile.exists /\ keyFile.exists
       THEN /\ pc' = "cipher"
            /\ UNCHANGED <<ivFile, mode, dryRun, locals, exitCode, hist>>
       ELSE IF mode = "dec"
       THEN /\ Return(1)
            /\ UNCHANGED ivFile
       ELSE /\ ivFile' = EmptyFile
            /\ pc' = "iv_write"
            /\ UNCHANGED <<mode, dryRun, locals, exitCode, hist>>
    /\ UNCHANGED <<dev, keyFile, offFile, sparseFile, stage, env, ghost>>

\* CreateRandomFile(blockSize, ivPath): content appended and fsynced
WriteIv(v) ==
    /\ pc = "iv_write"
    /\ ivFile' = FileOf(<<v>>)
    /\ pc' = "key_create"
    /\ UNCHANGED <<dev, keyFile, offFile, sparseFile, stage, env, mode, dryRun,
                   locals, exitCode, hist, ghost>>

\* CreateRandomFile(keySize, keyPath): the file is created
CreateKey ==
    /\ pc = "key_create"
    /\ keyFile' = EmptyFile
    /\ pc' = "key_write"
    /\ UNCHANGED <<dev, ivFile, offFile, sparseFile, stage, env, mode, dryRun,
                   locals, exitCode, hist, ghost>>

\* CreateRandomFile(keySize, keyPath): content appended and fsynced
WriteKey(k) ==
    /\ pc = "key_write"
    /\ keyFile' = FileOf(<<k>>)
    /\ pc' = "cipher"
    /\ UNCHANGED <<dev, ivFile, offFile, sparseFile, stage, env, mode, dryRun,
                   locals, exitCode, hist, ghost>>

\* load key and iv, initialise the cipher context, check its block size
InitCipher ==
    /\ pc = "cipher"
    /\ IF FileSize(ivFile, blockSize) # blockSize
          \/ FileSize(keyFile, keySize) # keySize
       THEN Return(1)
       ELSE IF cipherBlockSize # blockSize
       THEN Return(1)
       ELSE /\ ctx' = ivFile.data[1]
            /\ pc' = "offset"
            /\ UNCHANGED <<mode, dryRun, offset, sparseOffset, allZeroes, block,
                           exitCode, hist>>
    /\ UNCHANGED <<disk, env, ghost>>

\* the offset file of the mode is created when absent
OffsetInit ==
    /\ pc = "offset"
    /\ IF offFile[mode].exists
       THEN /\ pc' = "offset_load" /\ UNCHANGED offFile
       ELSE /\ offFile' = [offFile EXCEPT ![mode] = EmptyFile]
            /\ pc' = "offset_write"
    /\ UNCHANGED <<dev, ivFile, keyFile, sparseFile, stage, env, mode, dryRun,
                   locals, exitCode, hist, ghost>>

\* CreateFile(offsetPath, 8, hton(0)): content appended and fsynced
OffsetWrite ==
    /\ pc = "offset_write"
    /\ offFile' = [offFile EXCEPT ![mode] = FileOf(<<0>>)]
    /\ pc' = "offset_load"
    /\ UNCHANGED <<dev, ivFile, keyFile, sparseFile, stage, env, mode, dryRun,
                   locals, exitCode, hist, ghost>>

\* OffsetLoad that never takes the stored value: every run starts at 0
OffsetLoadFromZero ==
    /\ pc = "offset_load"
    /\ IF FileSize(offFile[mode], offsetSize) # offsetSize
       THEN Return(1)
       ELSE IF 0 >= DevSize
       THEN Return(0)
       ELSE /\ offset' = 0
            /\ pc' = "sparse"
            /\ UNCHANGED <<mode, dryRun, ctx, sparseOffset, allZeroes, block,
                           exitCode, hist>>
    /\ UNCHANGED <<disk, env, ghost>>

\* load the offset; "Already done" when it has reached the device size
OffsetLoad ==
    /\ pc = "offset_load"
    /\ IF FileSize(offFile[mode], offsetSize) # offsetSize
       THEN Return(1)
       ELSE IF offFile[mode].data[1] >= DevSize
       THEN Return(0)
       ELSE /\ offset' = offFile[mode].data[1]
            /\ pc' = "sparse"
            /\ UNCHANGED <<mode, dryRun, ctx, sparseOffset, allZeroes, block,
                           exitCode, hist>>
    /\ UNCHANGED <<disk, env, ghost>>

\* enc_sparse is created empty when absent, then opened
SparseInit ==
    /\ pc = "sparse"
    /\ sparseFile' = IF sparseFile.exists THEN sparseFile ELSE EmptyFile
    /\ sparseOffset' = 0
    /\ pc' = "loop"
    /\ UNCHANGED <<dev, ivFile, keyFile, offFile, stage, env, mode, dryRun,
                   offset, ctx, allZeroes, block, exitCode, hist, ghost>>


\* SparseScan that never moves the cursor past an entry below the offset
SparseScanNoSkip(data, cur, off) ==
    IF cur < offsetSize * Len(data)
    THEN [cur |-> cur, zero |-> (data[(cur \div offsetSize) + 1] = off)]
    ELSE [cur |-> cur, zero |-> FALSE]

\* SparseScan that also passes the entry equal to the offset
SparseScanSkipsEqual(data, cur, off) ==
    LET past == {i \in 0 .. Len(data) :
                    /\ i * offsetSize >= cur
                    /\ \A j \in 1 .. i : j * offsetSize > cur => data[j] <= off}
        last == CHOOSE i \in past : \A j \in past : j <= i
    IN  [cur |-> last * offsetSize, zero |-> FALSE]

\* the decrypt side's forward cursor over enc_sparse: entries below the
\* offset are passed, the scan stops at the first entry >= offset
RECURSIVE SparseScan(_, _, _)
SparseScan(data, cur, off) ==
    IF cur < offsetSize * Len(data)
    THEN LET tmp == data[(cur \div offsetSize) + 1]
         IN  IF tmp < off THEN SparseScan(data, cur + offsetSize, off)
             ELSE [cur |-> cur, zero |-> (tmp = off)]
    ELSE [cur |-> cur, zero |-> FALSE]

\* NextChunk that does not look for a stage file of the chunk
NextChunkIgnoresStage ==
    /\ pc = "loop"
    /\ IF offset >= DevSize
       THEN /\ pc' = "final"
            /\ UNCHANGED <<mode, dryRun, locals, exitCode, hist>>
       ELSE LET scan == IF mode = "dec" /\ sparseFile.data # <<>>
                        THEN SparseScan(sparseFile.data, sparseOffset, offset)
                        ELSE [cur |-> sparseOffset, zero |-> FALSE]
                z == IF mode = "enc" THEN IsZero(ChunkAt(dev, offset))
                                     ELSE scan.zero
            IN  /\ allZeroes' = z
                /\ sparseOffset' = scan.cur
                /\ pc' = IF ~z THEN "transform"
                         ELSE IF mode = "enc" THEN "sparse_append"
                         ELSE "store"
                /\ UNCHANGED <<mode, dryRun, offset, ctx, block, exitCode, hist>>
    /\ UNCHANGED <<disk, env, ghost>>

\* NextChunk that replays a stage file whatever its size
NextChunkAnyStageSize ==
    /\ pc = "loop"
    /\ IF offset >= DevSize
       THEN /\ pc' = "final"
            /\ UNCHANGED <<mode, dryRun, locals, exitCode, hist>>
       ELSE IF stage[mode][offset].exists
       THEN /\ allZeroes' = FALSE
            /\ block' = stage[mode][offset].data
            /\ pc' = IF dryRun THEN "store" ELSE "resume_write"
            /\ UNCHANGED <<mode, dryRun, offset, ctx, sparseOffset,
                           exitCode, hist>>
       ELSE LET scan == IF mode = "dec" /\ sparseFile.data # <<>>
                        THEN SparseScan(sparseFile.data, sparseOffset, offset)
                        ELSE [cur |-> sparseOffset, zero |-> FALSE]
                z == IF mode = "enc" THEN IsZero(ChunkAt(dev, offset))
                                     ELSE scan.zero
            IN  /\ allZeroes' = z
                /\ sparseOffset' = scan.cur
                /\ pc' = IF ~z THEN "transform"
                         ELSE IF mode = "enc" THEN "sparse_append"
                         ELSE "store"
                /\ UNCHANGED <<mode, dryRun, offset, ctx, block, exitCode, hist>>
    /\ UNCHANGED <<disk, env, ghost>>

\* while (chunk = chunks.Next()): pick the path of the chunk at offset
NextChunk ==
    /\ pc = "loop"
    /\ IF offset >= DevSize
       THEN /\ pc' = "final"
            /\ UNCHANGED <<mode, dryRun, locals, exitCode, hist>>
       ELSE IF stage[mode][offset].exists
       THEN IF FileSize(stage[mode][offset], blockSize) # chunkSize
            THEN Return(1)
            ELSE /\ allZeroes' = FALSE
                 /\ block' = stage[mode][offset].data
                 /\ pc' = IF dryRun THEN "store" ELSE "resume_write"
                 /\ UNCHANGED <<mode, dryRun, offset, ctx, sparseOffset,
                                exitCode, hist>>
       ELSE LET scan == IF mode = "dec" /\ sparseFile.data # <<>>
                        THEN SparseScan(sparseFile.data, sparseOffset, offset)
                        ELSE [cur |-> sparseOffset, zero |-> FALSE]
                z == IF mode = "enc" THEN IsZero(ChunkAt(dev, offset))
                                     ELSE scan.zero
            IN  /\ allZeroes' = z
                /\ sparseOffset' = scan.cur
                /\ pc' = IF ~z THEN "transform"
                         ELSE IF mode = "enc" THEN "sparse_append"
                         ELSE "store"
                /\ UNCHANGED <<mode, dryRun, offset, ctx, block, exitCode, hist>>
    /\ UNCHANGED <<disk, env, ghost>>

\* resume from the stage file: its content goes to the device, fsync
ResumeWrite ==
    /\ pc = "resume_write"
    /\ dev' = WriteAt(dev, offset, block)
    /\ runWrote' = runWrote \cup {offset}
    /\ pc' = "store"
    /\ UNCHANGED <<ivFile, keyFile, offFile, sparseFile, stage, env, mode,
                   dryRun, locals, exitCode, hist, origDev, startDev, snap,
                   runFed, unlinkErr, applied>>

\* SparseAppend that writes the entry at the start of the file (no
\* SeekToEnd) instead of its end
SparseAppendAtStart ==
    /\ pc = "sparse_append"
    /\ sparseFile' = FileOf(<<offset>> \o sparseFile.data)
    /\ pc' = "store"
    /\ UNCHANGED <<dev, ivFile, keyFile, offFile, stage, env, mode, dryRun,
                   locals, exitCode, hist, ghost>>

\* SparseAppend that records nothing
SparseAppendNothing ==
    /\ pc = "sparse_append"
    /\ pc' = "store"
    /\ UNCHANGED <<disk, env, mode, dryRun, locals, exitCode, hist, ghost>>

\* SparseAppend that records the offset of the following chunk
SparseAppendNextOffset ==
    /\ pc = "sparse_append"
    /\ sparseFile' = FileOf(Append(sparseFile.data, offset + chunkSize))
    /\ pc' = "store"
    /\ UNCHANGED <<dev, ivFile, keyFile, offFile, stage, env, mode, dryRun,
                   locals, exitCode, hist, ghost>>

\* sparse path of encrypt: the offset is appended to enc_sparse, fsync
SparseAppend ==
    /\ pc = "sparse_append"
    /\ sparseFile' = FileOf(Append(sparseFile.data, offset))
    /\ pc' = "store"
    /\ UNCHANGED <<dev, ivFile, keyFile, offFile, stage, env, mode, dryRun,
                   locals, exitCode, hist, ghost>>

\* Transform that goes on to the device write with the stage file opened
\* but not yet written
TransformThenWrite ==
    /\ pc = "transform"
    /\ LET r == CbcUpdate(mode, keyFile.data[1], ctx, ChunkAt(dev, offset))
       IN  /\ block' = r.out
           /\ ctx' = r.ctx
           /\ applied' = [applied EXCEPT ![mode][offset] =
                             Append(@, [in |-> ChunkAt(dev, offset), out |-> r.out])]
    /\ runFed' = runFed \cup {offset}
    /\ stage' = [stage EXCEPT ![mode][offset] = EmptyFile]
    /\ pc' = "dev_write"
    /\ UNCHANGED <<dev, ivFile, keyFile, offFile, sparseFile, env, mode, dryRun,
                   offset, sparseOffset, allZeroes, exitCode, hist, origDev,
                   startDev, snap, runWrote, unlinkErr>>

\* transform path: the chunk goes through the cipher and the stage file is
\* created (CreateFile has opened it, nothing appended yet)
Transform ==
    /\ pc = "transform"
    /\ LET r == CbcUpdate(mode, keyFile.data[1], ctx, ChunkAt(dev, offset))
       IN  /\ block' = r.out
           /\ ctx' = r.ctx
           /\ applied' = [applied EXCEPT ![mode][offset] =
                             Append(@, [in |-> ChunkAt(dev, offset), out |-> r.out])]
    /\ runFed' = runFed \cup {offset}
    /\ stage' = [stage EXCEPT ![mode][offset] = EmptyFile]
    /\ pc' = "stage_write"
    /\ UNCHANGED <<dev, ivFile, keyFile, offFile, sparseFile, env, mode, dryRun,
                   offset, sparseOffset, allZeroes, exitCode, hist, origDev,
                   startDev, snap, runWrote, unlinkErr>>

\* StageWrite without the dry-run guard of the device write
StageWriteNoDryGuard ==
    /\ pc = "stage_write"
    /\ stage' = [stage EXCEPT ![mode][offset] = FileOf(block)]
    /\ pc' = "dev_write"
    /\ UNCHANGED <<dev, ivFile, keyFile, offFile, sparseFile, env, mode, dryRun,
                   locals, exitCode, hist, ghost>>

\* CreateFile(tmpPath, len, block): content appended and fsynced
StageWrite ==
    /\ pc = "stage_write"
    /\ stage' = [stage EXCEPT ![mode][offset] = FileOf(block)]
    /\ pc' = IF dryRun THEN "store" ELSE "dev_write"
    /\ UNCHANGED <<dev, ivFile, keyFile, offFile, sparseFile, env, mode, dryRun,
                   locals, exitCode, hist, ghost>>

\* the transformed chunk goes to the device, fsync
DevWrite ==
    /\ pc = "dev_write"
    /\ dev' = WriteAt(dev, offset, block)
    /\ runWrote' = runWrote \cup {offset}
    /\ pc' = "store"
    /\ UNCHANGED <<ivFile, keyFile, offFile, sparseFile, stage, env, mode,
                   dryRun, locals, exitCode, hist, origDev, startDev, snap,
                   runFed, unlinkErr, applied>>

\* StoreOffset that advances by the cipher's block size
StoreOffsetByBlock ==
    /\ pc = "store"
    /\ offset' = offset + blockSize
    /\ offFile' = [offFile EXCEPT ![mode] = FileOf(<<offset + blockSize>>)]
    /\ pc' = IF allZeroes THEN "loop" ELSE "unlink"
    /\ UNCHANGED <<dev, ivFile, keyFile, sparseFile, stage, env, mode, dryRun,
                   ctx, sparseOffset, allZeroes, block, exitCode, hist, ghost>>

\* offset += chunkSize, written to the offset file, fsync
StoreOffset ==
    /\ pc = "store"
    /\ offset' = offset + chunkSize
    /\ offFile' = [offFile EXCEPT ![mode] = FileOf(<<offset + chunkSize>>)]
    /\ pc' = IF allZeroes THEN "loop" ELSE "unlink"
    /\ UNCHANGED <<dev, ivFile, keyFile, sparseFile, stage, env, mode, dryRun,
                   ctx, sparseOffset, allZeroes, block, exitCode, hist, ghost>>

\* Unlink that leaves the stage file in place in a dry run
UnlinkUnlessDryRun(ok) ==
    /\ pc = "unlink"
    /\ ok \/ Faults < MaxFaults
    /\ stage' = IF ok /\ ~dryRun
                THEN [stage EXCEPT ![mode][offset - chunkSize] = NoFile]
                ELSE stage
    /\ unlinkErr' = IF ok THEN unlinkErr ELSE unlinkErr \cup {<<mode, offset - chunkSize>>}
    /\ pc' = "loop"
    /\ UNCHANGED <<dev, ivFile, keyFile, offFile, sparseFile, env, mode, dryRun,
                   locals, exitCode, hist, origDev, startDev, snap, runFed,
                   runWrote, applied>>

\* Unlink whose failure ends the run with exit code 1
UnlinkFailureFatal(ok) ==
    /\ pc = "unlink"
    /\ ok \/ Faults < MaxFaults
    /\ IF ok
       THEN /\ stage' = [stage EXCEPT ![mode][offset - chunkSize] = NoFile]
            /\ unlinkErr' = unlinkErr
            /\ pc' = "loop"
            /\ UNCHANGED <<mode, dryRun, locals, exitCode, hist>>
       ELSE /\ stage' = stage
            /\ unlinkErr' = unlinkErr \cup {<<mode, offset - chunkSize>>}
            /\ Return(1)
    /\ UNCHANGED <<dev, ivFile, keyFile, offFile, sparseFile, env, origDev,
                   startDev, snap, runFed, runWrote, applied>>

\* unlink(tmpPath) of the chunk just stored; a failure is only reported
Unlink(ok) ==
    /\ pc = "unlink"
    /\ ok \/ Faults < MaxFaults
    /\ stage' = IF ok THEN [stage EXCEPT ![mode][offset - chunkSize] = NoFile]
                ELSE stage
    /\ unlinkErr' = IF ok THEN unlinkErr ELSE unlinkErr \cup {<<mode, offset - chunkSize>>}
    /\ pc' = "loop"
    /\ UNCHANGED <<dev, ivFile, keyFile, offFile, sparseFile, env, mode, dryRun,
                   locals, exitCode, hist, origDev, startDev, snap, runFed,
                   runWrote, applied>>

\* EVP_*Final_ex with padding off after whole blocks: no trailing bytes
Finalize ==
    /\ pc = "final"
    /\ Return(0)
    /\ UNCHANGED <<disk, env, ghost>>

Next ==
    \/ \E m \in Modes, d \in BOOLEAN : Start(m, d)
    \/ CheckSizes
    \/ EnsureKeys
    \/ \E v \in Vals : WriteIv(v)
    \/ CreateKey
    \/ \E k \in KeyVals : WriteKey(k)
    \/ InitCipher
    \/ OffsetInit
    \/ OffsetWrite
    \/ OffsetLoad
    \/ SparseInit
    \/ NextChunk
    \/ ResumeWrite
    \/ SparseAppend
    \/ Transform
    \/ StageWrite
    \/ DevWrite
    \/ StoreOffset
    \/ Unlink(TRUE)
    \/ Unlink(FALSE)
    \/ Finalize
    \/ Kill

Spec == Init /\ [][Next]_vars


\* A decrypt pass over a workdir that an encrypt pass has left and whose
\* enc_sparse holds any entries: key material and enc_offset in place, no
\* dec_offset, no stage file.
PreparedInit ==
    /\ dev \in UNION {[1 .. n -> Vals] : n \in 1 .. MaxBlocks}
    /\ chunkSize \in {c \in ChunkSizes : c % blockSize = 0 /\ DevSize % c = 0}
    /\ cipherBlockSize = blockSize
    /\ ivFile = FileOf(<<0>>)
    /\ keyFile \in {FileOf(<<k>>) : k \in KeyVals}
    /\ offFile = [m \in Modes |-> IF m = "enc" THEN FileOf(<<DevSize>>) ELSE NoFile]
    /\ sparseFile \in {FileOf(l) : l \in UNION {[1 .. n -> Offs] : n \in 0 .. MaxLog}}
    /\ stage = [m \in Modes |-> [o \in Offs |-> NoFile]]
    /\ pc = "idle" /\ mode = "dec" /\ dryRun = FALSE
    /\ offset = 0 /\ ctx = 0 /\ sparseOffset = 0 /\ allZeroes = FALSE
    /\ block = <<>> /\ exitCode = 0
    /\ origDev = dev /\ hist = <<>>
    /\ startDev = [m \in Modes |-> dev]
    /\ snap = Disk
    /\ runFed = {} /\ runWrote = {} /\ unlinkErr = {}
    /\ applied = [m \in Modes |-> [o \in Offs |-> <<>>]]

DecNext ==
    \/ \E d \in BOOLEAN : Start("dec", d)
    \/ CheckSizes
    \/ EnsureKeys
    \/ InitCipher
    \/ OffsetInit
    \/ OffsetWrite
    \/ OffsetLoad
    \/ SparseInit
    \/ NextChunk
    \/ ResumeWrite
    \/ Transform
    \/ StageWrite
    \/ DevWrite
    \/ StoreOffset
    \/ Unlink(TRUE)
    \/ Unlink(FALSE)
    \/ Finalize
    \/ Kill

DecSpec == PreparedInit /\ [][DecNext]_vars

\* ---------------------------------------------------------- vocabulary

Running == pc \notin {"idle", "exit"}
\* a chunk of zero bytes only
AllZero(c) == \A i \in DOMAIN c : c[i] = 0
\* the offsets of the chunks of device d
ChunkOffs(d) == {o \in Offs : o % chunkSize = 0 /\ o + chunkSize <= blockSize * Len(d)}
\* the offsets recorded in enc_sparse
Entries == {sparseFile.data[i] : i \in DOMAIN sparseFile.data}
\* the value persisted in <m>_offset, -1 while there is none
Persisted(m) == IF Len(offFile[m].data) = 1 THEN offFile[m].data[1] ELSE -1
KillEnds == {"after_stage_fsync", "after_dev_fsync", "after_offset_fsync",
             "in_create", "other"}
NamedKills == {"after_stage_fsync", "after_dev_fsync", "after_offset_fsync"}
\* every run so far, the current one included, was an encrypt run
EncOnly == mode = "enc" /\ \A i \in DOMAIN hist : hist[i].m = "enc"
\* every decrypt run so far came after an encrypt run that completed
DecAfterEnc ==
    /\ \A j \in DOMAIN hist : hist[j].m = "dec" =>
          \E i \in 1 .. (j - 1) : hist[i].m = "enc" /\ hist[i].end = "ok"
    /\ (Running /\ mode = "dec") =>
          \E i \in DOMAIN hist : hist[i].m = "enc" /\ hist[i].end = "ok"

\* The device after one uninterrupted run of mode m over device d with key k
\* and the cipher context prev, from offset o on: the chunks in ascending
\* order, the sparse ones (all zero in encrypt, recorded in sp in decrypt)
\* passed over, the others through the one cipher context.
RECURSIVE Uninterrupted(_, _, _, _, _, _)
Uninterrupted(m, d, k, prev, sp, o) ==
    IF o >= blockSize * Len(d) THEN d
    ELSE IF (m = "enc" /\ AllZero(ChunkAt(d, o))) \/ (m = "dec" /\ o \in sp)
    THEN Uninterrupted(m, d, k, prev, sp, o + chunkSize)
    ELSE LET r == CbcUpdate(m, k, prev, ChunkAt(d, o))
         IN  Uninterrupted(m, WriteAt(d, o, r.out), k, r.ctx, sp, o + chunkSize)

\* A single run that was not killed leaves the device as Uninterrupted says.
SingleRunIsUninterrupted ==
    (pc = "exit" /\ exitCode = 0 /\ ~dryRun
        /\ \A i \in 1 .. (Len(hist) - 1) : hist[i].m # mode)
    => dev = Uninterrupted(mode, startDev[mode], keyFile.data[1],
                           ivFile.data[1], Entries, 0)

\* ------------------------------------------------------------------ C1

\* the runs so far are those of a killed and resumed pass of the mode: after
\* an uninterrupted encrypt when the mode is decrypt, every run of the pass
\* with the same arguments and not a dry run, every run but the last killed
\* right after the stage-file fsync, the device-write fsync or the OffsetLog
\* fsync, the last one completed
ResumedPass ==
    LET first == IF mode = "enc" THEN 1 ELSE 2
    IN  /\ pc = "exit" /\ exitCode = 0 /\ ~dryRun
        /\ Len(hist) > first
        /\ mode = "dec" => hist[1] = [m |-> "enc", dry |-> FALSE, end |-> "ok"]
        /\ \A i \in first .. Len(hist) : hist[i].m = mode /\ ~hist[i].dry
        /\ \A i \in first .. (Len(hist) - 1) : hist[i].end \in NamedKills

\* C1: a pass that was killed right after a stage-file fsync, a device-write
\* fsync or an OffsetLog fsync and resumed with the same arguments ends with
\* the device content of one uninterrupted run on the same initial device,
\* key and IV.
C1_Resumability ==
    ResumedPass =>
        dev = Uninterrupted(mode, startDev[mode], keyFile.data[1],
                            ivFile.data[1], Entries, 0)

\* ------------------------------------------------------------------ C2

\* encrypt to completion, then decrypt to completion, neither a dry run
EncThenDecDone ==
    /\ pc = "exit"
    /\ hist = << [m |-> "enc", dry |-> FALSE, end |-> "ok"],
                 [m |-> "dec", dry |-> FALSE, end |-> "ok"] >>

\* C2: round trip: after an uninterrupted encrypt and an uninterrupted
\* decrypt with the same workdir the device holds its original content.
C2_RoundTrip == EncThenDecDone => dev = origDev

\* a round trip over three chunks, a zero chunk between two non-zero ones
C2_Witness ==
    /\ EncThenDecDone
    /\ chunkSize = 16 /\ Len(origDev) = 3
    /\ origDev[1] # 0 /\ origDev[2] = 0 /\ origDev[3] # 0
    /\ runFed = {0, 32} /\ runWrote = {0, 32}

\* ------------------------------------------------------------------ C3

\* C3: sparsity preservation.  Over encrypt runs, a chunk that was all zero
\* before the encryption stays all zero on the device, is not fed to the
\* cipher, and has its offset in enc_sparse once the encrypt offset is past
\* it; a decrypt run that follows a completed encrypt neither writes nor
\* feeds to the cipher a chunk whose offset is in enc_sparse.
C3_SparsityPreserved ==
    /\ EncOnly =>
         \A o \in ChunkOffs(origDev) : AllZero(ChunkAt(origDev, o)) =>
            /\ AllZero(ChunkAt(dev, o))
            /\ o \notin runFed
            /\ o \notin runWrote
            /\ Persisted("enc") > o => o \in Entries
    /\ (mode = "dec" /\ DecAfterEnc) =>
         \A o \in Entries : o \notin runFed /\ o \notin runWrote

\* an encrypt and a decrypt, completed, over a device with zero and
\* non-zero chunks: the zero chunks are recorded and the decrypt passed them
C3_Witness ==
    /\ EncThenDecDone
    /\ Entries # {} /\ runFed # {}
    /\ \A o \in ChunkOffs(origDev) : AllZero(ChunkAt(origDev, o)) <=> o \in Entries
    /\ \E o \in Entries : o > 0

\* ------------------------------------------------------------------ C4

\* only encrypt runs with the same arguments so far, one of them killed,
\* under a valid configuration
KilledAndReinvoked ==
    /\ pc = "exit"
    /\ chunkSize % blockSize = 0 /\ DevSize % chunkSize = 0
    /\ cipherBlockSize = blockSize
    /\ \A i \in DOMAIN hist : hist[i].m = "enc" /\ hist[i].dry = dryRun
    /\ \E i \in DOMAIN hist : hist[i].end \in KillEnds

\* C4: after a kill at any point, the run that is invoked again with the
\* same arguments does not stop with a fatal error.
C4_NoFatalAfterKill == KilledAndReinvoked => exitCode = 0

\* ------------------------------------------------------------------ C5

\* C5 as stated: the entries of enc_sparse are strictly ascending, also when
\* encrypt is killed and invoked again with the same arguments.
C5_StrictlyAscending ==
    (\A i \in DOMAIN hist : hist[i].m = "enc" /\ hist[i].dry = dryRun) =>
        \A i \in 1 .. (Len(sparseFile.data) - 1) :
            sparseFile.data[i] < sparseFile.data[i + 1]

\* C5 amended: the entries of enc_sparse are in non-decreasing order.
C5_NonDecreasing ==
    \A i \in 1 .. (Len(sparseFile.data) - 1) :
        sparseFile.data[i] <= sparseFile.data[i + 1]

\* an offset recorded twice, followed by a larger one
C5_Witness ==
    /\ Len(sparseFile.data) = 3
    /\ sparseFile.data[1] = sparseFile.data[2]
    /\ sparseFile.data[2] < sparseFile.data[3]


\* ------------------------------------------------------------------ C6

\* the run that has just ended found the offset of its mode at or past the
\* device size
StartedDone ==
    /\ pc = "exit"
    /\ Len(snap.off[mode].data) = 1
    /\ snap.off[mode].data[1] >= DevSize

\* C6: a run that finds the persisted offset of its mode at or past the
\* device size exits with code 0 and has changed nothing: no device write,
\* no cipher update, no change of a file of the workdir.
C6_AlreadyDoneNoop ==
    StartedDone =>
        /\ exitCode = 0
        /\ Disk = snap
        /\ runFed = {} /\ runWrote = {}

\* encrypt completed over a device with a non-zero chunk, then invoked again
C6_Witness ==
    /\ StartedDone
    /\ Len(hist) = 2
    /\ hist[1] = [m |-> "enc", dry |-> FALSE, end |-> "ok"]
    /\ hist[2].m = "enc"
    /\ dev # origDev

\* ------------------------------------------------------------------ C7

\* one completed dry run of encrypt over a device of two non-zero chunks
DryRunOfTwoChunks ==
    /\ pc = "exit"
    /\ hist = << [m |-> "enc", dry |-> TRUE, end |-> "ok"] >>
    /\ DevSize = 2 * chunkSize
    /\ \A o \in ChunkOffs(origDev) : ~AllZero(ChunkAt(origDev, o))

\* C7 as stated: after the dry run the device is unchanged, enc_offset is
\* the device size and the stage files of both chunks are in the workdir.
C7_StageFilesLeft ==
    DryRunOfTwoChunks =>
        /\ dev = origDev
        /\ Persisted("enc") = DevSize
        /\ \A o \in ChunkOffs(origDev) : stage["enc"][o].exists

\* C7 amended: after the dry run the device is unchanged, enc_offset is the
\* device size, and a stage file is left exactly for the chunks whose unlink
\* failed: none when every unlink succeeded.
C7_StageFilesUnlinked ==
    DryRunOfTwoChunks =>
        /\ dev = origDev
        /\ Persisted("enc") = DevSize
        /\ \A o \in ChunkOffs(origDev) :
              stage["enc"][o].exists <=> <<"enc", o>> \in unlinkErr

\* the dry run has ended, both chunks went through the cipher and no stage
\* file is left
C7_Witness ==
    /\ DryRunOfTwoChunks
    /\ runFed = {0, chunkSize}
    /\ \A o \in Offs : ~stage["enc"][o].exists

\* ------------------------------------------------------------------ C8

\* C8: no step of a dry run changes the device, and every change of the
\* offset of a dry run adds chunk_size to it, up to the device size a
\* completed run ends with.
C8_DryRunFrame ==
    [][ (dryRun /\ Running) =>
          /\ dev' = dev
          /\ runWrote' = {}
          /\ (Persisted(mode) >= 0 /\ offFile'[mode] # offFile[mode]) =>
                /\ Len(offFile'[mode].data) = 1
                /\ offFile'[mode].data[1] = Persisted(mode) + chunkSize
                /\ offFile'[mode].data[1] <= DevSize
          /\ (pc' = "exit" /\ exitCode' = 0) =>
                /\ Len(offFile'[mode].data) = 1
                /\ offFile'[mode].data[1] = DevSize ]_vars

\* a dry run killed with its stage file written and resumed as a dry run,
\* completed: the resume-from-stage path and the transform path were taken
C8_Witness ==
    /\ pc = "exit" /\ exitCode = 0 /\ dryRun
    /\ Len(hist) = 2 /\ hist[1].dry /\ hist[1].m = mode
    /\ hist[1].end \in KillEnds
    /\ DevSize = 2 * chunkSize
    /\ runFed = {chunkSize}
    /\ Persisted(mode) = DevSize
    /\ snap.stage[mode][0].exists /\ Len(snap.stage[mode][0].data) = 1
    /\ snap.off[mode].data = <<0>>

\* ------------------------------------------------------------------ C9

\* a decrypt run has ended that found .key or .iv absent
DecWithoutKeyMaterial ==
    /\ pc = "exit" /\ mode = "dec"
    /\ ~snap.iv.exists \/ ~snap.key.exists

\* C9: a decrypt run that finds .key or .iv absent exits with code 1, has
\* created neither, has written nothing to the device and has created or
\* changed no file of the workdir.
C9_MissingKeyMaterial ==
    DecWithoutKeyMaterial =>
        /\ exitCode = 1
        /\ Disk = snap
        /\ runWrote = {} /\ runFed = {}

\* decrypt with one of the two files present and the other absent, under a
\* configuration that passes the size checks
C9_Witness ==
    /\ DecWithoutKeyMaterial
    /\ snap.iv.exists /\ ~snap.key.exists
    /\ chunkSize % blockSize = 0 /\ DevSize % chunkSize = 0 /\ DevSize > 0

\* ----------------------------------------------------------------- C10

SizeMismatch == chunkSize % blockSize # 0 \/ DevSize % chunkSize # 0
ConfigMismatch == SizeMismatch \/ cipherBlockSize # blockSize

\* C10 as stated: under a configuration mismatch the run exits with code 1
\* and has created or modified no file and written nothing to the device.
C10_NothingTouched ==
    (pc = "exit" /\ ConfigMismatch) =>
        /\ exitCode = 1
        /\ Disk = snap
        /\ runWrote = {}

\* C10 amended: under a configuration mismatch the run exits with code 1,
\* has written nothing to the device and has created or modified no offset,
\* sparse or stage file; .key and .iv are untouched too when the mismatch is
\* one of the sizes, when the mode is decrypt, or when both files were there.
C10_NothingTouchedButKeys ==
    (pc = "exit" /\ ConfigMismatch) =>
        /\ exitCode = 1
        /\ dev = snap.dev /\ runWrote = {} /\ runFed = {}
        /\ offFile = snap.off /\ sparseFile = snap.sparse /\ stage = snap.stage
        /\ (SizeMismatch \/ mode = "dec" \/ (snap.iv.exists /\ snap.key.exists))
              => (ivFile = snap.iv /\ keyFile = snap.key)

\* a first encrypt run, stopped by the block size check after it created
\* .iv and .key
C10_Witness ==
    /\ pc = "exit" /\ ConfigMismatch /\ ~SizeMismatch
    /\ mode = "enc" /\ hist = << [m |-> "enc", dry |-> FALSE, end |-> "err"] >>
    /\ ~snap.iv.exists /\ Len(ivFile.data) = 1 /\ Len(keyFile.data) = 1

\* ----------------------------------------------------------------- C11

\* the stage file <m>_chunk-<o> holds a whole chunk
CompleteStage(m, o) ==
    stage[m][o].exists /\ blockSize * Len(stage[m][o].data) = chunkSize

\* C11: In a run that is not a dry run the durable events of a transformed
\* chunk happen in this order: the stage file is written, the device is
\* written, the offset file is set to offset + chunk size, the stage file is
\* unlinked. So whenever the device chunk at the persisted offset has been
\* written, also after a kill, a complete stage file for that offset exists
\* and holds what the device holds.
C11_DurableOrdering ==
    /\ [](~dryRun /\ Persisted(mode) \in runWrote =>
            /\ CompleteStage(mode, Persisted(mode))
            /\ stage[mode][Persisted(mode)].data = ChunkAt(dev, Persisted(mode)))
    /\ [][(Running /\ ~dryRun) =>
            \* the stage file is completed before the device write
            /\ \A o \in Offs : (~CompleteStage(mode, o) /\ CompleteStage(mode, o)') =>
                  /\ o = offset /\ o \notin runWrote
                  /\ Persisted(mode) = o /\ dev' = dev
            \* the device is written when the stage file is complete and the
            \* offset file still holds the offset of the chunk
            /\ runWrote' # runWrote =>
                  /\ runWrote' = runWrote \cup {offset}
                  /\ CompleteStage(mode, offset)
                  /\ ChunkAt(dev', offset) = stage[mode][offset].data
                  /\ Persisted(mode) = offset
                  /\ offFile' = offFile /\ stage' = stage
            \* the offset file advances after the device write
            /\ (Persisted(mode) >= 0 /\ offFile' # offFile /\ ~allZeroes) =>
                  /\ offset \in runWrote
                  /\ CompleteStage(mode, offset)
                  /\ Persisted(mode)' = offset + chunkSize
            \* the stage file is unlinked after the offset file advanced
            /\ \A o \in Offs : (stage[mode][o].exists /\ ~stage'[mode][o].exists) =>
                  (o \in runWrote /\ Persisted(mode) = o + chunkSize)
          ]_vars

\* a run was killed after the device write and before the offset store: the
\* device chunk at the persisted offset is overwritten
C11_Witness ==
    /\ pc = "idle" /\ ~dryRun
    /\ hist # <<>> /\ hist[Len(hist)].end = "after_dev_fsync"
    /\ Persisted(mode) \in runWrote
    /\ dev # snap.dev

\* ----------------------------------------------------------------- C12

\* C12: In encrypt mode the entry of a sparse chunk is in enc_sparse before
\* the offset file advances past the chunk: the offset file never holds a
\* value greater than the offset of an all-zero chunk without an entry.
C12_SparseOrdering ==
    /\ [](EncOnly =>
            \A o \in ChunkOffs(origDev) :
                (AllZero(ChunkAt(origDev, o)) /\ o \notin Entries) =>
                    Persisted("enc") <= o)
    /\ [][(Running /\ mode = "enc" /\ allZeroes /\ offFile' # offFile) =>
            /\ offset \in Entries
            /\ sparseFile' = sparseFile
            /\ Persisted("enc")' = offset + chunkSize
          ]_vars

\* the offset file has just advanced past a sparse chunk of an encrypt run
C12_Witness ==
    /\ mode = "enc" /\ pc = "loop" /\ allZeroes
    /\ Persisted("enc") = offset
    /\ AllZero(ChunkAt(origDev, offset - chunkSize))
    /\ (offset - chunkSize) \in Entries

\* ----------------------------------------------------------------- C13

\* the runs so far, kills included, are those of one pass of the mode with no
\* dry run among them: encrypt runs only, or encrypt runs up to a completed
\* one and decrypt runs only after it
NonDryPass ==
    /\ ~dryRun /\ \A i \in DOMAIN hist : ~hist[i].dry
    /\ \/ EncOnly
       \/ /\ mode = "dec"
          /\ \E k \in DOMAIN hist :
                /\ hist[k].m = "enc" /\ hist[k].end = "ok"
                /\ \A i \in DOMAIN hist : (i < k => hist[i].m = "enc")
                                          /\ (i > k => hist[i].m = "dec")

\* C13: In a pass without dry runs, kills and re-invocations included, every
\* chunk below the persisted offset is either a sparse chunk with its content
\* untouched or holds the output of exactly one cipher application to the
\* content the chunk had when the pass began; the cipher is never applied to
\* content that was already transformed.
C13_TransformedOnce ==
    NonDryPass =>
        /\ \A o \in ChunkOffs(dev) : o < Persisted(mode) =>
              LET orig == ChunkAt(startDev[mode], o)
                  sparse == IF mode = "enc" THEN AllZero(orig) ELSE o \in Entries
                  app == applied[mode][o]
              IN  IF sparse
                  THEN app = <<>> /\ ChunkAt(dev, o) = orig
                  ELSE /\ Len(app) = 1
                       /\ app[1].in = orig
                       /\ ChunkAt(dev, o) = app[1].out
                       /\ \E prev \in Vals :
                             app[1].out = CbcUpdate(mode, keyFile.data[1], prev, orig).out
        /\ \A o \in Offs : \A i \in DOMAIN applied[mode][o] :
              i = 1 /\ applied[mode][o][i].in = ChunkAt(startDev[mode], o)

\* an encrypt pass killed after a device write and completed by a second run
C13_Witness ==
    /\ NonDryPass /\ mode = "enc"
    /\ pc = "exit" /\ exitCode = 0
    /\ \E i \in DOMAIN hist : hist[i].end = "after_dev_fsync"
    /\ \E o \in ChunkOffs(dev) :
          /\ o < Persisted("enc") /\ Len(applied["enc"][o]) = 1
          /\ ChunkAt(dev, o) # ChunkAt(origDev, o)

\* ----------------------------------------------------------------- C14

\* C14: The value persisted in <mode>_offset is at most the device size and
\* a multiple of the chunk size; it never decreases, and every store raises
\* it by exactly the chunk size.
C14_OffsetInvariant ==
    /\ [](\A m \in Modes : Persisted(m) >= 0 =>
            /\ Persisted(m) <= DevSize
            /\ Persisted(m) % chunkSize = 0)
    /\ [][\A m \in Modes :
            /\ Persisted(m)' >= Persisted(m)
            /\ (Persisted(m) >= 0 /\ offFile'[m] # offFile[m]) =>
                  Persisted(m)' = Persisted(m) + chunkSize
          ]_vars

\* an encrypt pass of three chunks was killed and completed: the offset
\* file holds the device size
C14_Witness ==
    /\ pc = "exit" /\ exitCode = 0 /\ mode = "enc"
    /\ chunkSize = 16 /\ DevSize = 3 * chunkSize
    /\ Persisted("enc") = DevSize
    /\ \E i \in DOMAIN hist : hist[i].end \in KillEnds

\* ----------------------------------------------------------------- C15

\* C15 as stated: between chunks and after a kill at any step of an encrypt
\* run, every entry of enc_sparse is strictly smaller than the value
\* persisted in enc_offset.
C15_EntriesBelowOffset ==
    (EncOnly /\ pc \in {"loop", "idle", "exit"}) =>
        \A e \in Entries : e < Persisted("enc")

\* C15, amended: every entry of enc_sparse is at most the value persisted in
\* enc_offset, at every step and after a kill at any step; between the chunks
\* of an execution in which no run was killed every entry is strictly smaller.
C15_EntriesAtMostOffset ==
    /\ \A e \in Entries : e <= Persisted("enc")
    /\ (EncOnly /\ Kills = 0 /\ pc \in {"loop", "exit"}) =>
          \A e \in Entries : e < Persisted("enc")

\* an encrypt run was killed between the append to enc_sparse and the offset
\* store: the last entry equals the persisted offset
C15_Witness ==
    /\ EncOnly /\ pc = "idle"
    /\ sparseFile.data # <<>>
    /\ sparseFile.data[Len(sparseFile.data)] = Persisted("enc")

\* ----------------------------------------------------------------- C16

\* C16: A decrypt run over a workdir whose enc_sparse holds an entry greater
\* than the device size ends with exit code 1.
C16_CorruptSparseLog ==
    (pc = "exit" /\ mode = "dec" /\ \E e \in Entries : e > DevSize) =>
        exitCode = 1

\* ----------------------------------------------------------------- C17

\* the stage file of the chunk at the loop head exists with a wrong size
CorruptStageAtOffset ==
    /\ pc = "loop" /\ offset < DevSize
    /\ stage[mode][offset].exists
    /\ blockSize * Len(stage[mode][offset].data) # chunkSize

\* C17: When the stage file of the current offset exists with a size other
\* than the chunk size, the run ends with exit code 1: the device is not
\* written, the cipher is not applied to the chunk, the offset file does not
\* advance and the stage file stays.
C17_CorruptStage ==
    [][CorruptStageAtOffset =>
          /\ pc' \in {"exit", "idle"}
          /\ pc' = "exit" => (exitCode' = 1 /\ hist'[Len(hist')].end = "err")
          /\ dev' = dev /\ offFile' = offFile /\ stage' = stage
          /\ sparseFile' = sparseFile
          /\ runFed' = runFed /\ runWrote' = runWrote /\ applied' = applied
      ]_vars

\* a run was killed while it created a stage file; the next run found the
\* empty stage file at the persisted offset and ended
C17_Witness ==
    /\ pc = "exit" /\ exitCode = 1
    /\ Len(hist) = 2 /\ hist[1].end = "in_create" /\ hist[1].m = mode
    /\ Persisted(mode) >= 0 /\ Persisted(mode) < DevSize
    /\ stage[mode][Persisted(mode)] = EmptyFile
    /\ snap = Disk /\ runFed = {} /\ runWrote = {}

\* ----------------------------------------------------------------- C18

\* an unlink of a stage file of the current mode has failed in a pass
\* without dry runs and without kills
UnlinkFailedInPass ==
    /\ NonDryPass /\ Kills = 0
    /\ \E o \in Offs : <<mode, o>> \in unlinkErr

\* C18: A failed unlink of a stage file changes nothing but the stage file
\* left behind: the run goes on with the next chunk and ends with exit code
\* 0, the device after this run and after any later run of the same mode is
\* the one an uninterrupted run produces, and the device is only ever written
\* at offsets that are not below the persisted offset, so that a stage file
\* left below it is never replayed.
C18_UnlinkFailureHarmless ==
    /\ []((UnlinkFailedInPass /\ pc = "exit") =>
            /\ exitCode = 0
            /\ dev = Uninterrupted(mode, startDev[mode], keyFile.data[1],
                                   ivFile.data[1], Entries, 0))
    /\ [][/\ (pc = "unlink" /\ unlinkErr' # unlinkErr) =>
               (pc' = "loop" /\ disk' = disk /\ offset' = offset)
          /\ Running => \A o \in runWrote' \ runWrote : o >= Persisted(mode)
         ]_vars

\* an encrypt run in which an unlink failed has completed, a second run of
\* the same mode has ended, and the stage file is still there below the
\* persisted offset
C18_Witness ==
    /\ UnlinkFailedInPass /\ mode = "enc"
    /\ pc = "exit" /\ Len(hist) = 2
    /\ dev # origDev
    /\ \E o \in Offs : /\ <<"enc", o>> \in unlinkErr
                       /\ stage["enc"][o].exists
                       /\ o < Persisted("enc")

\* ----------------------------------------------------------------- C19

\* the entries of enc_sparse are in non-decreasing order
NonDecreasingLog ==
    \A i \in 1 .. (Len(sparseFile.data) - 1) :
        sparseFile.data[i] <= sparseFile.data[i + 1]

\* C19: In decrypt mode, for every enc_sparse in non-decreasing order (the
\* empty one and those holding an offset twice included), a chunk without a
\* stage file is taken as sparse exactly when its offset occurs in
\* enc_sparse; the cursor of a run never moves backwards and passes only
\* entries smaller than the current offset.
C19_SparseCursor ==
    [][(/\ mode = "dec" /\ pc = "loop" /\ pc' \notin {"idle", "exit"}
        /\ offset < DevSize /\ ~stage["dec"][offset].exists
        /\ NonDecreasingLog) =>
          /\ allZeroes' = (offset \in Entries)
          /\ sparseOffset' >= sparseOffset
          /\ sparseOffset' <= offsetSize * Len(sparseFile.data)
          /\ \A i \in DOMAIN sparseFile.data :
                (offsetSize * (i - 1) >= sparseOffset /\ offsetSize * i <= sparseOffset')
                    => sparseFile.data[i] < offset
      ]_vars

\* the cursor has passed an offset recorded twice: the chunk at 16 was taken
\* as sparse, the chunk at 32 is not
C19_Witness ==
    /\ mode = "dec" /\ chunkSize = 16
    /\ sparseFile.data = <<16, 16>>
    /\ pc = "transform" /\ offset = 32 /\ ~allZeroes
    /\ sparseOffset = 2 * offsetSize
    /\ ChunkAt(dev, 16) = ChunkAt(startDev["dec"], 16)
    /\ 0 \in runFed /\ 16 \notin runFed

\* ----------------------------------------------------------------- C20

\* the run that has ended started with a persisted offset below the device
\* size
StartedBelowSize ==
    /\ Len(snap.off[mode].data) = 1
    /\ snap.off[mode].data[1] < DevSize

\* the chunk offsets from the offset persisted at the start of the run on
RunOffsets ==
    {o \in ChunkOffs(dev) :
        Len(snap.off[mode].data) = 1 => o >= snap.off[mode].data[1]}

\* C20: A run that starts from a persisted offset below the device size and
\* is not killed ends with exit code 0; and a run that ends with exit code 0
\* leaves the persisted offset at the device size and, its unlinks having
\* succeeded, no stage file of the mode for an offset it processed.
C20_Termination ==
    /\ (pc = "exit" /\ StartedBelowSize) => exitCode = 0
    /\ (pc = "exit" /\ exitCode = 0) =>
          /\ Persisted(mode) = DevSize
          /\ unlinkErr = {} => \A o \in RunOffsets : ~stage[mode][o].exists

\* The run ends with exit code 0 when no stage file of a wrong size was there
\* at its start.
RunFromSoundStageCompletes ==
    /\ (pc = "exit" /\ StartedBelowSize
          /\ \A o \in Offs : snap.stage[mode][o].exists =>
                blockSize * Len(snap.stage[mode][o].data) = chunkSize)
       => exitCode = 0
    /\ (pc = "exit" /\ exitCode = 0) =>
          /\ Persisted(mode) = DevSize
          /\ unlinkErr = {} => \A o \in RunOffsets : ~stage[mode][o].exists

====
